---- MODULE Spec2Model ----
(***************************************************************************)
(* Model of the resilient request layer of the Tuteliq Node SDK            *)
(* (src/src/client.ts): the Request Executor (Tuteliq.request), the Error  *)
(* Classifier (Tuteliq.handleErrorResponse) and the Retry Coordinator      *)
(* (Tuteliq.requestWithRetry -> withRetry).                                *)
(*                                                                         *)
(* withRetry lives in src/utils/retry.ts, which is not part of the source  *)
(* tree at hand; its two steps (RetrySettle, BackoffElapsed) and the       *)
(* retry-eligibility table (Retryable) are modelled from spec.md §4.4/§7.  *)
(*                                                                         *)
(* JavaScript values are tagged records so that optional values, NaN and   *)
(* numbers can be compared with one another.                               *)
(***************************************************************************)
EXTENDS Integers, Sequences, FiniteSets, TLC

(***************************************************************************)
(* Bounds of the model                                                     *)
(***************************************************************************)
\* largest configured `retries` explored (the constructor admits 0..10)
MaxN == 2

\* the logical calls made on the client
Calls == {1}

\* the logical calls a client can have in progress at once (analyze starts
\* two); the calls of Calls are the ones made one at a time
AllCalls == {1, 2}

MaxAttempts == MaxN + 1
AttemptIds == 1..MaxAttempts

(***************************************************************************)
(* JavaScript values                                                       *)
(***************************************************************************)
Null == [t |-> "null"]
Undefined == [t |-> "undefined"]
NaN == [t |-> "NaN"]
Num(n) == [t |-> "num", v |-> n]
Str(s) == [t |-> "str", s |-> s]

\* JS truthiness of a string-or-null / string-or-undefined value
Truthy(x) == x.t = "str" /\ Len(x.s) > 0

Digits == {"0", "1", "2", "3", "4", "5", "6", "7", "8", "9"}

DigitVal(ch) ==
    CASE ch = "0" -> 0 [] ch = "1" -> 1 [] ch = "2" -> 2 [] ch = "3" -> 3
      [] ch = "4" -> 4 [] ch = "5" -> 5 [] ch = "6" -> 6 [] ch = "7" -> 7
      [] ch = "8" -> 8 [] ch = "9" -> 9

\* number of leading whitespace characters of s
RECURSIVE LeadingSpaces(_)
LeadingSpaces(s) ==
    IF s # <<>> /\ Head(s) = " " THEN 1 + LeadingSpaces(Tail(s)) ELSE 0

\* value of the longest prefix of decimal digits of s, acc is the value so far
RECURSIVE DigitPrefix(_, _)
DigitPrefix(s, acc) ==
    IF s # <<>> /\ Head(s) \in Digits
        THEN DigitPrefix(Tail(s), acc * 10 + DigitVal(Head(s)))
        ELSE acc

\* parseInt(str, 10) on a string given as a sequence of characters:
\* skip leading whitespace, an optional sign, then the longest digit prefix;
\* NaN when there is no digit.
parseInt(str) ==
    LET s1 == SubSeq(str, LeadingSpaces(str) + 1, Len(str))
        neg == s1 # <<>> /\ Head(s1) = "-"
        s2 == IF s1 # <<>> /\ Head(s1) \in {"-", "+"} THEN Tail(s1) ELSE s1
    IN  IF s2 = <<>> \/ Head(s2) \notin Digits
            THEN NaN
            ELSE Num(IF neg THEN 0 - DigitPrefix(s2, 0) ELSE DigitPrefix(s2, 0))

(***************************************************************************)
(* The server's answers: status, headers, body                             *)
(***************************************************************************)
\* response headers as read by headers.get: a string, or null when absent
NoHeaders ==
    [rid |-> Null, mLimit |-> Null, mUsed |-> Null, mRemaining |-> Null,
     rlLimit |-> Null, rlRemaining |-> Null, rlReset |-> Null,
     warn |-> Null, retryAfter |-> Null]

FullHeaders ==
    [rid |-> Str(<<"r", "1">>),
     mLimit |-> Str(<<"1", "0">>), mUsed |-> Str(<<"4">>), mRemaining |-> Str(<<"6">>),
     rlLimit |-> Str(<<"6", "0">>), rlRemaining |-> Str(<<"5", "9">>), rlReset |-> Str(<<"7">>),
     warn |-> Str(<<"w">>), retryAfter |-> Str(<<"5">>)]

\* some headers missing or empty, a non-numeric retry-after (HTTP-date form)
PartialHeaders ==
    [rid |-> Str(<<"r", "2">>),
     mLimit |-> Str(<<"1", "0">>), mUsed |-> Str(<<>>), mRemaining |-> Str(<<"6">>),
     rlLimit |-> Str(<<"3", "0">>), rlRemaining |-> Str(<<"x">>), rlReset |-> Null,
     warn |-> Null, retryAfter |-> Str(<<"W", "e", "d">>)]

HeaderSets == {NoHeaders, FullHeaders, PartialHeaders}

OkStatuses == {200, 201}
ErrStatuses == {304, 400, 401, 403, 404, 418, 429, 500, 503}
Statuses == OkStatuses \cup ErrStatuses

\* variant: success tested as `status === 200`
okExactly200(status) == status = 200

\* response.ok
ok(status) == status >= 200 /\ status <= 299

NoResp == [t |-> "none"]

\* an error body as decoded by response.json(): the ApiError shape
ErrPayload(code, message, details, suggestion, links) ==
    [error |-> [code |-> code, message |-> message, details |-> details,
                suggestion |-> suggestion, links |-> links]]

\* what `.catch(() => ({}))` yields for an absent or malformed body
EmptyObj == [error |-> Undefined]

ErrorPayloads ==
    { EmptyObj,
      ErrPayload(Str(<<"QUOTA_EXCEEDED">>), Str(<<"quota">>), Undefined, Str(<<"upgrade">>), Undefined),
      ErrPayload(Str(<<"RATE_2003">>), Str(<<"quota">>), Undefined, Undefined, Str(<<"docs">>)),
      ErrPayload(Str(<<"VAL_1001">>), Str(<<>>), Str(<<"field">>), Undefined, Undefined) }

\* payloads of successful responses
OkPayloads == {Str(<<"b", "1">>), Str(<<"b", "2">>)}

\* a response body on the wire: JSON text of a value, text that is not JSON
\* (or no body at all), or a body whose stream breaks off while it is read
Json(v) == [t |-> "json", v |-> v]
Malformed == [t |-> "malformed"]
Truncated == [t |-> "truncated"]

ErrorBodies == {Malformed} \cup {Json(v) : v \in ErrorPayloads}
OkBodies == {Malformed, Truncated} \cup {Json(v) : v \in OkPayloads}

Responses ==
    [t : {"resp"}, status : OkStatuses, headers : HeaderSets, body : OkBodies]
    \cup
    [t : {"resp"}, status : ErrStatuses, headers : HeaderSets, body : ErrorBodies]

(***************************************************************************)
(* Exceptions raised by the platform (fetch, response.json)                *)
(***************************************************************************)
\* a thrown value: isError = instanceof Error, isTypeError = instanceof
\* TypeError, message as a sequence of words
Exc(isError, isTypeError, name, message) ==
    [t |-> "exc", isError |-> isError, isTypeError |-> isTypeError,
     name |-> name, message |-> message]

\* what an aborted fetch rejects with; the wording depends on the runtime
AbortExceptions ==
    { Exc(TRUE, FALSE, "AbortError", <<"This", "operation", "was", "aborted">>),
      Exc(TRUE, FALSE, "AbortError", <<"network", "request", "aborted">>) }

\* what fetch rejects with when the transport fails, or anything else thrown
TransportExceptions ==
    { Exc(TRUE, TRUE, "TypeError", <<"fetch", "failed">>),
      Exc(TRUE, FALSE, "Error", <<"read", "ECONNRESET">>),
      Exc(TRUE, FALSE, "Error", <<"Network", "connection", "lost">>),
      Exc(FALSE, FALSE, "", <<>>) }

\* what response.json() rejects with: text that is not JSON, a broken stream
SyntaxError == Exc(TRUE, FALSE, "SyntaxError", <<"Unexpected", "token">>)
Terminated == Exc(TRUE, TRUE, "TypeError", <<"terminated">>)

\* variant: a body that cannot be decoded reads as {}
jsonEmptyOnFailure(body, aborted, abortError) ==
    IF aborted THEN abortError
    ELSE CASE body.t = "json" -> [t |-> "value", v |-> body.v]
           [] OTHER -> [t |-> "value", v |-> EmptyObj]

\* await response.json(): the decoded value, or the exception it rejects with
\* (abortError when the request was aborted while the body was being read)
json(body, aborted, abortError) ==
    IF aborted THEN abortError
    ELSE CASE body.t = "json" -> [t |-> "value", v |-> body.v]
           [] body.t = "malformed" -> SyntaxError
           [] body.t = "truncated" -> Terminated

\* the substrings request() looks for in error.message
NetworkSignals ==
    {"fetch", "network", "ECONNREFUSED", "ECONNRESET", "ENOTFOUND",
     "ERR_NETWORK", "Failed to fetch", "Network request failed"}

MessageIncludes(message, signals) ==
    \E i \in 1..Len(message) : message[i] \in signals

(***************************************************************************)
(* Errors of the SDK (the classes imported from ./errors.js)               *)
(***************************************************************************)
Kinds ==
    {"Validation", "Authentication", "TierAccess", "NotFound", "RateLimit",
     "QuotaExceeded", "Server", "Timeout", "Network", "Generic"}

NoErr == [t |-> "none"]

\* opts is the {code, suggestion, links} object of the constructors
SdkError(kind, message, status, details, retryAfter, opts) ==
    [t |-> "err", kind |-> kind, message |-> message, status |-> status,
     details |-> details, retryAfter |-> retryAfter,
     code |-> opts.code, suggestion |-> opts.suggestion, links |-> opts.links]

NoOpts == [code |-> Undefined, suggestion |-> Undefined, links |-> Undefined]

UnknownErrorMsg == Str(<<"Unknown", "error">>)
TimedOutMsg == Str(<<"Request", "timed", "out">>)
UnknownOccurredMsg == Str(<<"Unknown", "error", "occurred">>)

(***************************************************************************)
(* Error Classifier: Tuteliq.handleErrorResponse                           *)
(***************************************************************************)
\* body.error?.<field>
ErrorField(body, field) ==
    IF body.error = Undefined THEN Undefined ELSE body.error[field]

\* variant: only the current quota code is recognised
QuotaCodesCurrentOnly == {Str(<<"RATE_2003">>)}

\* the codes for which a 429 is a quota failure
QuotaCodes == {Str(<<"RATE_2003">>), Str(<<"QUOTA_EXCEEDED">>)}

\* the error built for a status, an error body and the response headers
ErrorForStatus(status, body, headers) ==
    LET m == ErrorField(body, "message")
        message == IF Truthy(m) THEN m ELSE UnknownErrorMsg
        code == ErrorField(body, "code")
        details == ErrorField(body, "details")
        opts == [code |-> code, suggestion |-> ErrorField(body, "suggestion"),
                 links |-> ErrorField(body, "links")]
        retryAfter == headers.retryAfter
    IN  CASE status = 400 -> SdkError("Validation", message, Undefined, details, Undefined, opts)
          [] status = 401 -> SdkError("Authentication", message, Undefined, Undefined, Undefined, opts)
          [] status = 403 -> SdkError("TierAccess", message, Undefined, Undefined, Undefined, opts)
          [] status = 404 -> SdkError("NotFound", message, Undefined, Undefined, Undefined, opts)
          [] status = 429 ->
                IF code \in QuotaCodes
                    THEN SdkError("QuotaExceeded", message, Undefined, Undefined, Undefined, opts)
                    ELSE SdkError("RateLimit", message, Undefined, Undefined,
                                  IF Truthy(retryAfter) THEN parseInt(retryAfter.s) ELSE Undefined,
                                  opts)
          [] OTHER ->
                IF status >= 500
                    THEN SdkError("Server", message, Num(status), Undefined, Undefined, opts)
                    ELSE SdkError("Generic", message, Num(status), details, Undefined, opts)

\* variant: the server test written `status > 500`
handleErrorResponseAbove500(status, body, headers) ==
    IF status = 500
        THEN [ErrorForStatus(status, body, headers) EXCEPT !.kind = "Generic"]
        ELSE ErrorForStatus(status, body, headers)

\* variant: `case 403` missing from the switch
handleErrorResponseNo403(status, body, headers) ==
    IF status = 403
        THEN [ErrorForStatus(status, body, headers) EXCEPT
                !.kind = "Generic", !.status = Num(status)]
        ELSE ErrorForStatus(status, body, headers)

\* variant: the retry-after header is not handed to RateLimitError
handleErrorResponseNoRetryAfter(status, body, headers) ==
    [ErrorForStatus(status, body, headers) EXCEPT !.retryAfter = Undefined]

\* the value handleErrorResponse throws
handleErrorResponse(status, body, headers) ==
    ErrorForStatus(status, body, headers)

(***************************************************************************)
(* Request Executor: Tuteliq.request                                       *)
(***************************************************************************)
\* elapsed times Date.now() - startTime can take
Latencies == {10, 20}

NoMeta ==
    [usage |-> Null, rateLimit |-> Null, lastRequestId |-> Null,
     lastLatencyMs |-> Null, usageWarning |-> Null]

\* variant: usage and rateLimit are assigned on every response, null when
\* their headers are incomplete
ExtractMetadataAlwaysAssign(m, h, latency) ==
        [lastLatencyMs |-> Num(latency),
         lastRequestId |-> h.rid,
         usage |->
            IF Truthy(h.mLimit) /\ Truthy(h.mUsed) /\ Truthy(h.mRemaining)
                THEN [t |-> "usage", limit |-> parseInt(h.mLimit.s),
                      used |-> parseInt(h.mUsed.s),
                      remaining |-> parseInt(h.mRemaining.s)]
                ELSE Null,
         rateLimit |->
            IF Truthy(h.rlLimit) /\ Truthy(h.rlRemaining)
                THEN [t |-> "rateLimit", limit |-> parseInt(h.rlLimit.s),
                      remaining |-> parseInt(h.rlRemaining.s),
                      reset |-> IF Truthy(h.rlReset) THEN parseInt(h.rlReset.s)
                                                    ELSE Undefined]
                ELSE Null,
         usageWarning |-> h.warn]

\* the snapshot m after the extraction from the headers h
ExtractMetadata(m, h, latency) ==
        [lastLatencyMs |-> Num(latency),
         lastRequestId |-> h.rid,
         usage |->
            IF Truthy(h.mLimit) /\ Truthy(h.mUsed) /\ Truthy(h.mRemaining)
                THEN [t |-> "usage", limit |-> parseInt(h.mLimit.s),
                      used |-> parseInt(h.mUsed.s),
                      remaining |-> parseInt(h.mRemaining.s)]
                ELSE m.usage,
         rateLimit |->
            IF Truthy(h.rlLimit) /\ Truthy(h.rlRemaining)
                THEN [t |-> "rateLimit", limit |-> parseInt(h.rlLimit.s),
                      remaining |-> parseInt(h.rlRemaining.s),
                      reset |-> IF Truthy(h.rlReset) THEN parseInt(h.rlReset.s)
                                                    ELSE Undefined]
                ELSE m.rateLimit,
         usageWarning |-> h.warn]

\* variant: a failed attempt clears what earlier responses left
recordLatencyClearRest(m, latency) ==
    [NoMeta EXCEPT !.lastLatencyMs = Num(latency)]

\* line 361: this._lastLatencyMs = Date.now() - startTime
recordLatency(m, latency) ==
    [m EXCEPT !.lastLatencyMs = Num(latency)]

\* variant: the headers are read on the success path only
UpdateMetadataOkOnly(m, resp, latency) ==
    IF ok(resp.status)
        THEN ExtractMetadata(m, resp.headers, latency)
        ELSE [m EXCEPT !.lastLatencyMs = Num(latency)]

\* the snapshot after lines 318-350 have run for the response
UpdateMetadata(m, resp, latency) ==
    ExtractMetadata(m, resp.headers, latency)

\* lines 367-391: the SDK error built for a caught platform exception
ErrorForException(error) ==
    IF error.isError /\ error.name = "AbortError"
        THEN SdkError("Timeout", TimedOutMsg, Undefined, Undefined, Undefined, NoOpts)
        ELSE IF error.isError
                /\ (\/ error.isTypeError
                    \/ error.name = "TypeError"
                    \/ MessageIncludes(error.message, NetworkSignals))
            THEN SdkError("Network", Str(error.message), Undefined, Undefined, Undefined, NoOpts)
            ELSE SdkError("Generic",
                          IF error.isError THEN Str(error.message) ELSE UnknownOccurredMsg,
                          Undefined, Undefined, Undefined, NoOpts)

\* variant: no `instanceof TuteliqError` rethrow, SDK errors are wrapped
catchErrorWrapAll(error) ==
    IF error.t = "err"
        THEN SdkError("Generic", error.message, Undefined, Undefined, Undefined, NoOpts)
        ELSE ErrorForException(error)

\* variant: no AbortError test, an abort is classified by its message
catchErrorNoAbortTest(error) ==
    IF error.t = "err"
        THEN error
        ELSE IF error.isError /\ error.name = "AbortError"
            THEN ErrorForException([error EXCEPT !.name = "Error"])
            ELSE ErrorForException(error)

\* the catch block of request after its two bookkeeping lines: what is
\* rethrown for a caught value (an SDK error or a platform exception)
catchError(error) ==
    IF error.t = "err" THEN error ELSE ErrorForException(error)

\* variant: no `.catch` on the body read, a decode failure propagates
throwForErrorResponseNoCatch(resp, decoded) ==
    IF decoded.t = "exc"
        THEN decoded
        ELSE handleErrorResponse(resp.status, decoded.v, resp.headers)

\* lines 353-356: what the `if (!response.ok)` block throws once the body
\* read has settled; a failed read yields {}
throwForErrorResponse(resp, decoded) ==
    handleErrorResponse(resp.status,
                        IF decoded.t = "exc" THEN EmptyObj ELSE decoded.v,
                        resp.headers)

\* one attempt (one invocation of request)
\*   pc      position of the async function
\*   net     state of the fetch it started
\*   timer   state of its setTimeout
\*   updates number of times it has written the metadata snapshot
NoAttempt ==
    [pc |-> "none", net |-> "none", timer |-> "none", aborted |-> FALSE,
     resp |-> NoResp, classified |-> NoErr, err |-> NoErr, val |-> Undefined,
     updates |-> 0, hdrWrites |-> 0]

\* request() up to its first await: timer armed, fetch started
StartedAttempt ==
    [NoAttempt EXCEPT !.pc = "fetching", !.net = "pending", !.timer = "armed"]

\* clearTimeout(timeoutId)
clearTimeout(a) ==
    [a EXCEPT !.timer = IF @ = "armed" THEN "cleared" ELSE @]

\* variant: the timer rejects the attempt and leaves the fetch running
onTimeoutRejectOnly(a) ==
    [a EXCEPT !.timer = "fired", !.pc = "thrown",
              !.err = SdkError("Timeout", TimedOutMsg, Undefined, Undefined,
                               Undefined, NoOpts)]

\* the timer callback: () => controller.abort()
onTimeout(a) ==
    [a EXCEPT !.timer = "fired", !.aborted = TRUE,
              !.net = IF @ = "pending" THEN "aborted" ELSE @]

\* the attempt after the catch block has run for the caught value
Caught(a, error) ==
    [clearTimeout(a) EXCEPT !.pc = "thrown", !.err = catchError(error),
                            !.updates = @ + 1]

(***************************************************************************)
(* Multipart Executor: Tuteliq.multipartRequest                            *)
(***************************************************************************)
\* lines 471-500: the snapshot m after the extraction from the headers h
multipartExtractMetadata(m, h, latency) ==
        [lastLatencyMs |-> Num(latency),
         lastRequestId |-> h.rid,
         usage |->
            IF Truthy(h.mLimit) /\ Truthy(h.mUsed) /\ Truthy(h.mRemaining)
                THEN [t |-> "usage", limit |-> parseInt(h.mLimit.s),
                      used |-> parseInt(h.mUsed.s),
                      remaining |-> parseInt(h.mRemaining.s)]
                ELSE m.usage,
         rateLimit |->
            IF Truthy(h.rlLimit) /\ Truthy(h.rlRemaining)
                THEN [t |-> "rateLimit", limit |-> parseInt(h.rlLimit.s),
                      remaining |-> parseInt(h.rlRemaining.s),
                      reset |-> IF Truthy(h.rlReset) THEN parseInt(h.rlReset.s)
                                                    ELSE Undefined]
                ELSE m.rateLimit,
         usageWarning |-> h.warn]

\* line 510: this._lastLatencyMs = Date.now() - startTime
multipartRecordLatency(m, latency) ==
    [m EXCEPT !.lastLatencyMs = Num(latency)]

\* variant: only a TypeError is taken for a network failure
multipartErrorForExceptionTypeErrorOnly(error) ==
    IF error.isError /\ error.name = "AbortError"
        THEN SdkError("Timeout", TimedOutMsg, Undefined, Undefined, Undefined, NoOpts)
        ELSE IF error.isError /\ (error.isTypeError \/ error.name = "TypeError")
            THEN SdkError("Network", Str(error.message), Undefined, Undefined, Undefined, NoOpts)
            ELSE SdkError("Generic",
                          IF error.isError THEN Str(error.message) ELSE UnknownOccurredMsg,
                          Undefined, Undefined, Undefined, NoOpts)

\* lines 516-539: the SDK error built for a caught platform exception
multipartErrorForException(error) ==
    IF error.isError /\ error.name = "AbortError"
        THEN SdkError("Timeout", TimedOutMsg, Undefined, Undefined, Undefined, NoOpts)
        ELSE IF error.isError
                /\ (\/ error.isTypeError
                    \/ error.name = "TypeError"
                    \/ MessageIncludes(error.message, NetworkSignals))
            THEN SdkError("Network", Str(error.message), Undefined, Undefined, Undefined, NoOpts)
            ELSE SdkError("Generic",
                          IF error.isError THEN Str(error.message) ELSE UnknownOccurredMsg,
                          Undefined, Undefined, Undefined, NoOpts)

\* lines 512-539: what the catch block rethrows for a caught value
multipartCatchError(error) ==
    IF error.t = "err" THEN error ELSE multipartErrorForException(error)

\* lines 502-505: what the `if (!response.ok)` block throws
multipartThrowForErrorResponse(resp, decoded) ==
    handleErrorResponse(resp.status,
                        IF decoded.t = "exc" THEN EmptyObj ELSE decoded.v,
                        resp.headers)

\* the attempt after the catch block of multipartRequest has run
multipartCaught(a, error) ==
    [clearTimeout(a) EXCEPT !.pc = "thrown", !.err = multipartCatchError(error),
                            !.updates = @ + 1]

\* an event of the environment of an attempt: the timer fires, fetch
\* resolves or rejects, the read of the body settles
Event(kind, resp, error, latency) ==
    [kind |-> kind, resp |-> resp, error |-> error, latency |-> latency]

\* the second client before its first call
\*   meta, att          its snapshot and its current attempt
\*   prevMeta, prevAtt  the same before the last event of the attempt
\*   event              that event
\*   calls              calls made so far
NoMultipart ==
    [meta |-> NoMeta, att |-> NoAttempt, prevMeta |-> NoMeta,
     prevAtt |-> NoAttempt, event |-> Event("none", NoResp, Undefined, 0), calls |-> 0]

(***************************************************************************)
(* Input validation of the public operations                               *)
(***************************************************************************)
MAX_CONTENT_LENGTH == 50000
MAX_MESSAGES_COUNT == 100
MAX_BATCH_ITEMS == 25
MAX_DETECTIONS == 10

\* a string or an array given by its length only
StrOfLen(n) == [t |-> "str", len |-> n]
ArrOfLen(n) == [t |-> "array", len |-> n]

\* new ValidationError(message)
ValidationError(message) ==
    SdkError("Validation", Str(message), Undefined, Undefined, Undefined, NoOpts)

\* variant: no upper limit on the content length
validateContentNoLimit(content) ==
    IF content.t # "str" \/ content.len = 0
        THEN ValidationError(<<"Content", "is", "required">>)
        ELSE NoErr

\* validateContent: the error it throws, NoErr when it returns
validateContent(content) ==
    IF content.t # "str" \/ content.len = 0
        THEN ValidationError(<<"Content", "is", "required">>)
        ELSE IF content.len > MAX_CONTENT_LENGTH
            THEN ValidationError(<<"Content", "exceeds", "maximum", "length">>)
            ELSE NoErr

\* validateMessages
validateMessages(messages) ==
    IF messages.t # "array" \/ messages.len = 0
        THEN ValidationError(<<"Messages", "array", "is", "required">>)
        ELSE IF messages.len > MAX_MESSAGES_COUNT
            THEN ValidationError(<<"Messages", "array", "exceeds", "maximum", "count">>)
            ELSE NoErr

\* the checks at the head of batch
validateItems(items) ==
    IF items.t # "array" \/ items.len = 0
        THEN ValidationError(<<"Items", "array", "is", "required">>)
        ELSE IF items.len > MAX_BATCH_ITEMS
            THEN ValidationError(<<"Maximum", "25", "items">>)
            ELSE NoErr

\* the checks at the head of analyseMulti
validateMulti(content, detections) ==
    IF validateContent(content) # NoErr
        THEN validateContent(content)
        ELSE IF detections.t # "array" \/ detections.len = 0
            THEN ValidationError(<<"At", "least", "one", "detection">>)
            ELSE IF detections.len > MAX_DETECTIONS
                THEN ValidationError(<<"Maximum", "10", "detection", "endpoints">>)
                ELSE NoErr

\* arguments the operations are called with
Contents == {Undefined, Num(7)} \cup {StrOfLen(n) : n \in {0, MAX_CONTENT_LENGTH, MAX_CONTENT_LENGTH + 1}}
MessageLists == {Undefined} \cup {ArrOfLen(n) : n \in {0, MAX_MESSAGES_COUNT, MAX_MESSAGES_COUNT + 1}}
ItemLists == {Undefined} \cup {ArrOfLen(n) : n \in {0, MAX_BATCH_ITEMS, MAX_BATCH_ITEMS + 1}}
DetectionLists == {Undefined} \cup {ArrOfLen(n) : n \in {0, MAX_DETECTIONS, MAX_DETECTIONS + 1}}

\* the input of a public operation; arguments it does not take are Null
Input(op, content, messages, items, detections) ==
    [op |-> op, content |-> content, messages |-> messages, items |-> items,
     detections |-> detections]

NoInput == Input("none", Null, Null, Null, Null)

(***************************************************************************)
(* analyze: two detections in parallel, one combined result                *)
(***************************************************************************)
\* the logical call analyze makes for a detection type
CallOf(type) == IF type = "bullying" THEN 1 ELSE 2

\* the include option: undefined, or an array given by the types it holds
Includes(types) == [t |-> "array", types |-> types]

\* variant: an empty include list also selects the default
includedTypesDefaultIfEmpty(include) ==
    IF include = Undefined \/ include.types = {}
        THEN {"bullying", "unsafe"}
        ELSE include.types

\* input.include || ['bullying', 'unsafe'], as the set of types that run
includedTypes(include) ==
    IF include = Undefined THEN {"bullying", "unsafe"} ELSE include.types

\* a detection result as far as analyze reads it; risk_score in hundredths
DetectionResult(risk_score, recommended_action) ==
    [t |-> "result", risk_score |-> risk_score,
     recommended_action |-> recommended_action]

Max(a, b) == IF a >= b THEN a ELSE b

\* variant: the level thresholds are compared with > instead of >=
riskLevelStrict(maxRiskScore) ==
    IF maxRiskScore > 90 THEN "critical"
    ELSE IF maxRiskScore > 70 THEN "high"
    ELSE IF maxRiskScore > 50 THEN "medium"
    ELSE IF maxRiskScore > 30 THEN "low"
    ELSE "safe"

\* lines 718-723
riskLevel(maxRiskScore) ==
    IF maxRiskScore >= 90 THEN "critical"
    ELSE IF maxRiskScore >= 70 THEN "high"
    ELSE IF maxRiskScore >= 50 THEN "medium"
    ELSE IF maxRiskScore >= 30 THEN "low"
    ELSE "safe"

\* <result>?.recommended_action === action
Recommends(r, action) == r # Undefined /\ r.recommended_action = action

\* lines 738-749
recommendedAction(bullyingResult, unsafeResult) ==
    IF Recommends(bullyingResult, "immediate_intervention")
            \/ Recommends(unsafeResult, "immediate_intervention")
        THEN "immediate_intervention"
    ELSE IF Recommends(bullyingResult, "flag_for_moderator")
            \/ Recommends(unsafeResult, "flag_for_moderator")
        THEN "flag_for_moderator"
    ELSE IF Recommends(bullyingResult, "monitor")
            \/ Recommends(unsafeResult, "monitor")
        THEN "monitor"
    ELSE "none"

\* lines 702-760: the AnalyzeResult built from the results of the
\* detections that ran (Undefined for one that did not)
combine(bullyingResult, unsafeResult) ==
    LET afterBullying == IF bullyingResult = Undefined THEN 0
                         ELSE Max(0, bullyingResult.risk_score)
        maxRiskScore == IF unsafeResult = Undefined THEN afterBullying
                        ELSE Max(afterBullying, unsafeResult.risk_score)
    IN  [t |-> "analyze", risk_level |-> riskLevel(maxRiskScore),
         risk_score |-> maxRiskScore,
         bullying |-> bullyingResult, unsafe |-> unsafeResult,
         recommended_action |-> recommendedAction(bullyingResult, unsafeResult)]

\* variant: settles as soon as one promise has settled
PromiseRace(states) ==
    IF "rejected" \in states THEN "rejected"
    ELSE IF "resolved" \in states THEN "resolved"
    ELSE "pending"

\* Promise.all over promises in the given states: rejected once one has
\* rejected, resolved once all have resolved (at once for no promise)
PromiseAll(states) ==
    IF "rejected" \in states THEN "rejected"
    ELSE IF states \subseteq {"resolved"} THEN "resolved"
    ELSE "pending"

NoAnalysis ==
    [pc |-> "idle", include |-> Undefined, started |-> {}, outcome |-> Undefined]

(***************************************************************************)
(* Streaming Session: createVoiceStream (spec.md 4.5, 5, 6)                *)
(***************************************************************************)
MaxChunks == 3
MaxFrames == 4

\* outbound frames
Audio(i) == [t |-> "audio", id |-> i]
CloseSignal == [t |-> "close"]

\* inbound frames, by event type; "malformed" is a frame that is no event
FrameTypes ==
    {"ready", "transcription", "alert", "config_updated", "session_summary",
     "error", "malformed"}

NoSummary == [t |-> "none"]

\* the session before voiceStream is called
\*   buffer          outbound audio buffer (chunk numbers)
\*   sent            frames written to the connection, in order
\*   submitted       audio chunks accepted from the caller so far
\*   held            of these, the ones submitted before Ready
\*   refused         submissions refused as caller errors
\*   received, last  inbound frames received, type of the last one
\*   dispatched      events passed to the registered handlers, in order
\*   transcriptions  Transcription events received
\*   transcript      accumulated transcript
\*   endCall         state of the caller's end() promise
\*   terminal        terminal events the session has had
\*   errorCalls      invocations of the out-of-band error handler
NewSession ==
    [state |-> "Idle", buffer |-> <<>>, sent |-> <<>>, submitted |-> 0,
     held |-> 0, refused |-> 0, received |-> 0, last |-> "none",
     dispatched |-> <<>>, transcriptions |-> 0, transcript |-> <<>>,
     endCall |-> "none", summary |-> NoSummary, terminal |-> <<>>,
     errorCalls |-> 0]

Terminal(s) == s.state \in {"Closed", "Errored"}

\* the frames of the buffered chunks, in buffer order
Frames(buffer) == [i \in 1..Len(buffer) |-> Audio(buffer[i])]

\* the buffer is written to the connection
flush(s) == [s EXCEPT !.sent = @ \o Frames(s.buffer), !.buffer = <<>>]

\* variant: audio submitted while Connecting is written at once
sendAudioUnqueued(s) ==
    IF s.state \in {"Connecting", "Active"}
        THEN [s EXCEPT !.submitted = @ + 1,
                       !.held = IF s.state = "Connecting" THEN @ + 1 ELSE @,
                       !.sent = Append(@, Audio(s.submitted + 1))]
        ELSE [s EXCEPT !.refused = @ + 1]

\* session.sendAudio(chunk): queued while Connecting or Active, refused
\* as a caller error from Closing on
sendAudio(s) ==
    IF s.state \in {"Connecting", "Active"}
        THEN [s EXCEPT !.submitted = @ + 1,
                       !.held = IF s.state = "Connecting" THEN @ + 1 ELSE @,
                       !.buffer = Append(@, s.submitted + 1)]
        ELSE [s EXCEPT !.refused = @ + 1]

\* variant: the close signal is sent without flushing the buffer
endNoFlush(s) ==
    [s EXCEPT !.sent = Append(@, CloseSignal), !.state = "Closing",
              !.endCall = "pending"]

\* session.end() on an Active session: flush, close signal, Closing
end(s) ==
    [flush(s) EXCEPT !.sent = Append(@, CloseSignal), !.state = "Closing",
                     !.endCall = "pending"]

\* variant: a failure leaves a pending end() unsettled
failKeepPending(s) ==
    [s EXCEPT !.state = "Errored", !.terminal = Append(@, "error"),
              !.errorCalls = @ + 1]

\* any failure: Errored; the pending end() rejects, or else the error goes
\* to the out-of-band error handler
fail(s) ==
    [s EXCEPT !.state = "Errored", !.terminal = Append(@, "error"),
              !.endCall = IF @ = "pending" THEN "rejected" ELSE @,
              !.errorCalls = IF s.endCall = "pending" THEN @ ELSE @ + 1]

\* variant: the session reconnects after a lost connection
onConnectionLostReconnect(s) ==
    [s EXCEPT !.state = "Connecting"]

\* the connection is lost or cannot be established
onConnectionLost(s) == fail(s)

\* variant: a Transcription event is dispatched but not accumulated
onTranscriptionDispatchOnly(s) ==
    [s EXCEPT !.dispatched = Append(@, "transcription"),
              !.transcriptions = @ + 1]

\* a Transcription event: dispatched, its text appended to the transcript
onTranscription(s) ==
    [s EXCEPT !.dispatched = Append(@, "transcription"),
              !.transcriptions = @ + 1,
              !.transcript = Append(@, "text")]

\* an inbound frame of the given type is processed
onMessage(s, type) ==
    LET r == [s EXCEPT !.received = @ + 1, !.last = type]
    IN  IF Terminal(s)
          THEN [s EXCEPT !.received = @ + 1]
          ELSE CASE type = "ready" /\ s.state = "Connecting" ->
                        [flush(r) EXCEPT !.state = "Active",
                                         !.dispatched = Append(@, "ready")]
                 [] type = "transcription" /\ s.state \in {"Active", "Closing"} ->
                        onTranscription(r)
                 [] type \in {"alert", "config_updated"}
                        /\ s.state \in {"Active", "Closing"} ->
                        [r EXCEPT !.dispatched = Append(@, type)]
                 [] type = "session_summary" /\ s.state = "Closing" ->
                        [r EXCEPT !.state = "Closed", !.endCall = "resolved",
                                  !.summary = [t |-> "summary",
                                               transcript |-> r.transcript],
                                  !.terminal = Append(@, "session_summary")]
                 [] OTHER -> fail(r)

(***************************************************************************)
(* Retry Coordinator: withRetry (spec.md 4.4)                              *)
(***************************************************************************)
\* variant: every failure except the caller and account errors is retried
RetryableGenericToo(err) ==
    err.kind \in {"Network", "Timeout", "Server", "RateLimit", "Generic"}

Retryable(err) == err.kind \in {"Network", "Timeout", "Server", "RateLimit"}

NoSleep == [basis |-> "none", hint |-> Undefined, retry |-> 0]

\* variant: the retry-after hint is ignored
sleepForIgnoreHint(err, n) ==
    [basis |-> "delay", hint |-> Undefined, retry |-> n]

\* the wait before retry n after error err: the retry-after hint of a
\* RateLimit error when it carries one, else the Backoff Scheduler's delay
sleepFor(err, n) ==
    IF err.kind = "RateLimit" /\ err.retryAfter.t = "num"
        THEN [basis |-> "retryAfter", hint |-> err.retryAfter, retry |-> n]
        ELSE [basis |-> "delay", hint |-> Undefined, retry |-> n]

NoResult == [t |-> "none"]

(***************************************************************************)
(* Construction: new Tuteliq(apiKey, options)                              *)
(***************************************************************************)
DEFAULT_TIMEOUT == 30000
DEFAULT_RETRIES == 3
DEFAULT_RETRY_DELAY == 1000

\* the options object; a field not given is Undefined
Options(timeout, retries, retryDelay) ==
    [timeout |-> timeout, retries |-> retries, retryDelay |-> retryDelay]

\* x ?? d
Coalesce(x, d) == IF x \in {Null, Undefined} THEN d ELSE x

\* a < n and a > n on JS numbers: false when a is NaN
LessThan(a, n) == a.t = "num" /\ a.v < n
GreaterThan(a, n) == a.t = "num" /\ a.v > n

\* throw new Error(message)
ThrownError(message) == [t |-> "thrown", message |-> message]

\* the constructor: the client it leaves, or the Error it throws; the API
\* key is given by its type and length
constructor(apiKey, options) ==
    LET timeout == Coalesce(options.timeout, Num(DEFAULT_TIMEOUT))
        maxRetries == Coalesce(options.retries, Num(DEFAULT_RETRIES))
        retryDelay == Coalesce(options.retryDelay, Num(DEFAULT_RETRY_DELAY))
    IN  IF apiKey.t # "str" \/ apiKey.len = 0
            THEN ThrownError(<<"API", "key", "is", "required">>)
        ELSE IF apiKey.len < 10
            THEN ThrownError(<<"API", "key", "too", "short">>)
        ELSE IF LessThan(timeout, 1000) \/ GreaterThan(timeout, 120000)
            THEN ThrownError(<<"Timeout", "must", "be", "between">>)
        ELSE IF LessThan(maxRetries, 0) \/ GreaterThan(maxRetries, 10)
            THEN ThrownError(<<"Retries", "must", "be", "between">>)
        ELSE [t |-> "client", apiKey |-> apiKey, timeout |-> timeout,
              retries |-> maxRetries, retryDelay |-> retryDelay]

\* before any `new Tuteliq(...)`
NoClient == [t |-> "none"]

\* a `new Tuteliq(apiKey, options)` expression and its outcome
New(apiKey, options) ==
    [t |-> "new", apiKey |-> apiKey, options |-> options,
     outcome |-> constructor(apiKey, options)]

(***************************************************************************)
(* State                                                                   *)
(***************************************************************************)
VARIABLES
    mp,         \* a second client, whose attempts run through multipartRequest
    client,     \* the `new Tuteliq(apiKey, options)` made and what came of it
    retries,    \* this.retries, as handed to withRetry
    meta,       \* _usage, _rateLimit, _lastRequestId, _lastLatencyMs, _usageWarning
    cpc,        \* per logical call: position of withRetry
    attempts,   \* per logical call: attempts started
    waits,      \* per logical call: backoff waits completed
    att,        \* per logical call and attempt number: the attempt
    hist,       \* per logical call: history of its ended attempts
    result,     \* per logical call: what the caller has received
    input,      \* per logical call: the public operation invoked and its input
    sleep,      \* per logical call: the wait withRetry is in
    analysis,   \* the invocation of analyze in progress
    session     \* the streaming session opened by voiceStream

\* the state of the request path
requestVars ==
    <<mp, client, retries, meta, cpc, attempts, waits, att, hist, result, input, sleep,
      analysis>>

vars ==
    <<mp, client, retries, meta, cpc, attempts, waits, att, hist, result, input, sleep,
      analysis, session>>

\* the outcome of an ended attempt: the status it received (0 when there was
\* no response), the machine code read from its error body, how it ended
Outcome(a) ==
    [t |-> "outcome",
     status |-> IF a.resp = NoResp THEN 0 ELSE a.resp.status,
     code |-> IF a.classified = NoErr THEN Undefined ELSE a.classified.code,
     kind |-> IF a.pc = "returned" THEN "ok" ELSE a.err.kind]

NoOutcome == [t |-> "none"]

\* history of a logical call: attempts ended, the outcome of the first one,
\* whether every ended attempt received a 5xx response
NoHist == [ended |-> 0, first |-> NoOutcome, all5xx |-> TRUE]

Init ==
    /\ retries \in 0..MaxN
    /\ client = New(StrOfLen(10), Options(Undefined, Num(retries), Undefined))
    /\ mp = NoMultipart
    /\ meta = NoMeta
    /\ cpc = [c \in AllCalls |-> "idle"]
    /\ attempts = [c \in AllCalls |-> 0]
    /\ waits = [c \in AllCalls |-> 0]
    /\ att = [c \in AllCalls |-> [n \in AttemptIds |-> NoAttempt]]
    /\ hist = [c \in AllCalls |-> NoHist]
    /\ result = [c \in AllCalls |-> NoResult]
    /\ input = [c \in AllCalls |-> NoInput]
    /\ sleep = [c \in AllCalls |-> NoSleep]
    /\ analysis = NoAnalysis
    /\ session = NewSession

\* a client constructed with retries: 0
InitNoRetries ==
    /\ Init
    /\ retries = 0

Ended(c, n, a) ==
    /\ att' = [att EXCEPT ![c][n] = a]
    /\ hist' = [hist EXCEPT ![c] =
                    [ended |-> @.ended + 1,
                     first |-> IF @.ended = 0 THEN Outcome(a) ELSE @.first,
                     all5xx |-> @.all5xx /\ Outcome(a).status >= 500]]

\* a public method calls requestWithRetry: withRetry invokes attempt 1
requestWithRetry(c) ==
    /\ cpc[c] = "idle"
    /\ cpc' = [cpc EXCEPT ![c] = "attempting"]
    /\ attempts' = [attempts EXCEPT ![c] = 1]
    /\ att' = [att EXCEPT ![c][1] = StartedAttempt]
    /\ UNCHANGED <<mp, client, analysis, sleep, session, input, retries, meta, waits, hist, result>>

\* fetch resolves with a response: lines 317-356 up to the body read
FetchResolve(c, n, resp, latency) ==
    /\ att[c][n].net = "pending"
    /\ meta' = UpdateMetadata(meta, resp, latency)
    /\ att' = [att EXCEPT ![c][n] =
                [clearTimeout(@) EXCEPT !.net = "done", !.resp = resp,
                    !.updates = @ + 1, !.hdrWrites = @ + 1,
                    !.pc = IF ok(resp.status) THEN "okBody" ELSE "errBody"]]
    /\ UNCHANGED <<mp, client, analysis, sleep, session, input, retries, cpc, attempts, waits, hist, result>>

\* the timeout timer fires
TimerFire(c, n) ==
    /\ att[c][n].timer = "armed"
    /\ att' = [att EXCEPT ![c][n] = onTimeout(@)]
    /\ UNCHANGED <<mp, client, analysis, sleep, session, input, retries, meta, cpc, attempts, waits, hist, result>>

\* fetch rejects: with an AbortError if it was aborted, else a transport error
FetchReject(c, n, error, latency) ==
    /\ att[c][n].net \in {"pending", "aborted"}
    /\ error \in IF att[c][n].net = "aborted" THEN AbortExceptions
                                              ELSE TransportExceptions
    /\ meta' = recordLatency(meta, latency)
    /\ Ended(c, n, [Caught(att[c][n], error) EXCEPT !.net = "done"])
    /\ UNCHANGED <<mp, client, analysis, sleep, session, input, retries, cpc, attempts, waits, result>>

\* response.json() of a non-2xx response settles: `.catch(() => ({}))`, then
\* handleErrorResponse throws and the catch block rethrows (lines 353-365)
ErrorBodyRead(c, n, abortError, latency) ==
    /\ att[c][n].pc = "errBody"
    /\ LET a == att[c][n]
           decoded == json(a.resp.body, a.aborted, abortError)
           thrown == throwForErrorResponse(a.resp, decoded)
       IN  Ended(c, n, [Caught(a, thrown) EXCEPT
                            !.classified = IF thrown.t = "err" THEN thrown ELSE @])
    /\ meta' = recordLatency(meta, latency)
    /\ UNCHANGED <<mp, client, analysis, sleep, session, input, retries, cpc, attempts, waits, result>>

\* response.json() of a 2xx response settles: request returns the decoded
\* body, or the catch block runs for the exception (lines 358-391)
OkBodyRead(c, n, abortError, latency) ==
    /\ att[c][n].pc = "okBody"
    /\ LET a == att[c][n]
           decoded == json(a.resp.body, a.aborted, abortError)
       IN  IF decoded.t = "exc"
             THEN /\ Ended(c, n, Caught(a, decoded))
                  /\ meta' = recordLatency(meta, latency)
             ELSE /\ Ended(c, n, [a EXCEPT !.pc = "returned", !.val = decoded.v])
                  /\ meta' = meta
    /\ UNCHANGED <<mp, client, analysis, sleep, session, input, retries, cpc, attempts, waits, result>>

\* the record of an attempt whose error withRetry has absorbed: nothing of
\* it is kept, except a fetch or a timer that is still live
Finished(a) ==
    IF a.net = "done" /\ a.timer # "armed"
        THEN [NoAttempt EXCEPT !.pc = "done", !.net = "done"]
        ELSE [a EXCEPT !.pc = "done"]

\* withRetry resumes after the attempt it awaits has settled
RetrySettle(c) ==
    LET n == attempts[c]
        a == att[c][n]
    IN  /\ cpc[c] = "attempting"
        /\ a.pc \in {"returned", "thrown"}
        /\ IF a.pc = "returned"
             THEN /\ cpc' = [cpc EXCEPT ![c] = "resolved"]
                  /\ result' = [result EXCEPT ![c] = [t |-> "value", v |-> a.val]]
                  /\ att' = [att EXCEPT ![c][n].pc = "done"]
                  /\ sleep' = sleep
             ELSE IF Retryable(a.err) /\ n - 1 < retries
                THEN /\ cpc' = [cpc EXCEPT ![c] = "backoff"]
                     /\ result' = result
                     /\ att' = [att EXCEPT ![c][n] = Finished(a)]
                     /\ sleep' = [sleep EXCEPT ![c] = sleepFor(a.err, n)]
                ELSE /\ cpc' = [cpc EXCEPT ![c] = "rejected"]
                     /\ result' = [result EXCEPT ![c] = [t |-> "error", e |-> a.err]]
                     /\ att' = [att EXCEPT ![c][n].pc = "done"]
                     /\ sleep' = sleep
        /\ UNCHANGED <<mp, client, analysis, session, input, retries, meta, attempts, waits, hist>>

\* the backoff wait is over: withRetry invokes the next attempt
BackoffElapsed(c) ==
    /\ cpc[c] = "backoff"
    /\ cpc' = [cpc EXCEPT ![c] = "attempting"]
    /\ waits' = [waits EXCEPT ![c] = @ + 1]
    /\ attempts' = [attempts EXCEPT ![c] = @ + 1]
    /\ att' = [att EXCEPT ![c][attempts[c] + 1] = StartedAttempt]
    /\ sleep' = [sleep EXCEPT ![c] = NoSleep]
    /\ UNCHANGED <<mp, client, analysis, session, input, retries, meta, hist, result>>

Next ==
    \E c \in Calls :
        \/ requestWithRetry(c)
        \/ RetrySettle(c)
        \/ BackoffElapsed(c)
        \/ \E n \in AttemptIds :
            \/ TimerFire(c, n)
            \/ \E l \in Latencies :
                \/ \E r \in Responses : FetchResolve(c, n, r, l)
                \/ \E e \in AbortExceptions \cup TransportExceptions : FetchReject(c, n, e, l)
                \/ \E e \in AbortExceptions :
                    \/ ErrorBodyRead(c, n, e, l)
                    \/ OkBodyRead(c, n, e, l)

Spec == Init /\ [][Next]_vars

(***************************************************************************)
(* Public operations: validation, then requestWithRetry                    *)
(***************************************************************************)
OpsMaxRetries == 1

InitOps ==
    /\ Init
    /\ retries <= OpsMaxRetries

\* no call is in progress
Settled(c) == cpc[c] \in {"idle", "resolved", "rejected"}

\* a public operation is invoked with input inp, for which its validation
\* throws error (NoErr when it passes); index c stands for the call the
\* application is currently making, its previous call having settled
PublicOperation(c, inp, error) ==
    /\ input' = [input EXCEPT ![c] = inp]
    /\ waits' = [waits EXCEPT ![c] = 0]
    /\ hist' = [hist EXCEPT ![c] = NoHist]
    /\ IF error # NoErr
         THEN /\ cpc' = [cpc EXCEPT ![c] = "rejected"]
              /\ attempts' = [attempts EXCEPT ![c] = 0]
              /\ att' = [att EXCEPT ![c] = [n \in AttemptIds |-> NoAttempt]]
              /\ result' = [result EXCEPT ![c] = [t |-> "error", e |-> error]]
         ELSE /\ cpc' = [cpc EXCEPT ![c] = "attempting"]
              /\ attempts' = [attempts EXCEPT ![c] = 1]
              /\ att' = [att EXCEPT ![c] =
                          [n \in AttemptIds |-> IF n = 1 THEN StartedAttempt
                                                         ELSE NoAttempt]]
              /\ result' = [result EXCEPT ![c] = NoResult]
    /\ UNCHANGED <<mp, client, analysis, sleep, session, retries, meta>>

detectBullying(c, content) ==
    /\ Settled(c)
    /\ PublicOperation(c, Input("detectBullying", content, Null, Null, Null),
                       validateContent(content))

detectGrooming(c, messages) ==
    /\ Settled(c)
    /\ PublicOperation(c, Input("detectGrooming", Null, messages, Null, Null),
                       validateMessages(messages))

batch(c, items) ==
    /\ Settled(c)
    /\ PublicOperation(c, Input("batch", Null, Null, items, Null),
                       validateItems(items))

analyseMulti(c, content, detections) ==
    /\ Settled(c)
    /\ PublicOperation(c, Input("analyseMulti", content, Null, Null, detections),
                       validateMulti(content, detections))

\* the responses and latencies the server side is exercised with here
OpsResponses ==
    {r \in Responses :
        /\ r.status \in {200, 429, 500}
        /\ r.headers \in {NoHeaders, FullHeaders}
        /\ r.body \in {Json(Str(<<"b", "1">>)), Json(EmptyObj)}}

OpsLatencies == {10}

NextOps ==
    \E c \in Calls :
        \/ \E content \in Contents : detectBullying(c, content)
        \/ \E messages \in MessageLists : detectGrooming(c, messages)
        \/ \E items \in ItemLists : batch(c, items)
        \/ \E content \in Contents : \E detections \in DetectionLists :
                analyseMulti(c, content, detections)
        \/ RetrySettle(c)
        \/ BackoffElapsed(c)
        \/ \E n \in AttemptIds :
            \/ TimerFire(c, n)
            \/ \E l \in OpsLatencies :
                \/ \E r \in OpsResponses : FetchResolve(c, n, r, l)
                \/ \E e \in AbortExceptions \cup TransportExceptions : FetchReject(c, n, e, l)
                \/ \E e \in AbortExceptions :
                    \/ ErrorBodyRead(c, n, e, l)
                    \/ OkBodyRead(c, n, e, l)

SpecOps == InitOps /\ [][NextOps]_vars

(***************************************************************************)
(* analyze: its calls run concurrently on one client                       *)
(***************************************************************************)
AnalyzeMaxRetries == 1

InitAnalyze ==
    /\ Init
    /\ retries <= AnalyzeMaxRetries

\* the state of the promise of call c
PromiseState(c) ==
    IF cpc[c] \in {"resolved", "rejected"} THEN cpc[c] ELSE "pending"

\* analyze up to `await Promise.all(promises)`: detectBullying and
\* detectUnsafe are invoked for the included types, each validating the
\* content and starting its first attempt
analyze(content, include) ==
    LET started == {CallOf(type) : type \in includedTypes(include)}
        error == validateContent(content)
    IN  /\ analysis.pc = "idle"
        /\ \A c \in AllCalls : cpc[c] = "idle"
        /\ analysis' = [pc |-> "awaiting", include |-> include,
                        started |-> started, outcome |-> Undefined]
        /\ input' = [c \in AllCalls |->
                        IF c \in started
                            THEN Input(IF c = 1 THEN "detectBullying" ELSE "detectUnsafe",
                                  content, Null, Null, Null)
                            ELSE input[c]]
        /\ cpc' = [c \in AllCalls |->
                        IF c \notin started THEN cpc[c]
                        ELSE IF error # NoErr THEN "rejected" ELSE "attempting"]
        /\ attempts' = [c \in AllCalls |->
                        IF c \in started /\ error = NoErr THEN 1 ELSE attempts[c]]
        /\ att' = [c \in AllCalls |->
                        IF c \in started /\ error = NoErr
                            THEN [att[c] EXCEPT ![1] = StartedAttempt]
                            ELSE att[c]]
        /\ result' = [c \in AllCalls |->
                        IF c \in started /\ error # NoErr
                            THEN [t |-> "error", e |-> error]
                            ELSE result[c]]
        /\ UNCHANGED <<mp, client, retries, meta, waits, hist, sleep, session>>

\* Promise.all settles and analyze resumes: it rejects with the error of a
\* rejected call, or builds the combined result from the calls' results
AnalyzeSettle ==
    LET outcome == PromiseAll({PromiseState(c) : c \in analysis.started})
        resultOf(c) == IF c \in analysis.started THEN result[c].v ELSE Undefined
    IN  /\ analysis.pc = "awaiting"
        /\ outcome # "pending"
        /\ IF outcome = "rejected"
             THEN \E c \in analysis.started :
                    /\ cpc[c] = "rejected"
                    /\ analysis' = [analysis EXCEPT !.pc = "rejected",
                                                    !.outcome = result[c].e]
             ELSE analysis' = [analysis EXCEPT
                                !.pc = "resolved",
                                !.outcome = combine(resultOf(1), resultOf(2))]
        /\ UNCHANGED <<mp, client, retries, meta, cpc, attempts, waits, att, hist,
                       result, input, sleep, session>>

\* what analyze is called with
AnalyzeIncludes == {Undefined} \cup {Includes(types) : types \in SUBSET {"bullying", "unsafe"}}

\* what the server answers call c with, and how long it takes
HeadersOf(c) == IF c = 1 THEN FullHeaders ELSE PartialHeaders
LatencyOf(c) == IF c = 1 THEN 10 ELSE 20

AnalyzeResponses(c) ==
    {[t |-> "resp", status |-> 200, headers |-> HeadersOf(c), body |-> Json(v)] :
        v \in {DetectionResult(30, "monitor"),
               DetectionResult(90, "immediate_intervention")}}
    \cup {[t |-> "resp", status |-> 500, headers |-> HeadersOf(c),
           body |-> Json(EmptyObj)]}

AnalyzeExceptions ==
    {Exc(TRUE, FALSE, "AbortError", <<"This", "operation", "was", "aborted">>),
     Exc(TRUE, TRUE, "TypeError", <<"fetch", "failed">>)}

NextAnalyze ==
    \/ \E content \in {StrOfLen(0), StrOfLen(MAX_CONTENT_LENGTH)} : \E include \in AnalyzeIncludes :
            analyze(content, include)
    \/ AnalyzeSettle
    \/ \E c \in AllCalls :
        \/ RetrySettle(c)
        \/ BackoffElapsed(c)
        \/ \E n \in AttemptIds :
            \/ TimerFire(c, n)
            \/ \E r \in AnalyzeResponses(c) : FetchResolve(c, n, r, LatencyOf(c))
            \/ \E e \in AnalyzeExceptions : FetchReject(c, n, e, LatencyOf(c))
            \/ \E e \in AnalyzeExceptions :
                \/ ErrorBodyRead(c, n, e, LatencyOf(c))
                \/ OkBodyRead(c, n, e, LatencyOf(c))

SpecAnalyze == InitAnalyze /\ [][NextAnalyze]_vars

(***************************************************************************)
(* analyze: the combined result, for detections that all succeed           *)
(***************************************************************************)
\* results with risk scores (hundredths) around every threshold and each of
\* the four actions
CombineResponses ==
    {[t |-> "resp", status |-> 200, headers |-> NoHeaders,
      body |-> Json(DetectionResult(score, action))] :
        score \in {0 - 10, 0, 29, 30, 49, 50, 69, 70, 89, 90, 100},
        action \in {"none", "monitor", "flag_for_moderator",
                    "immediate_intervention"}}

NextCombine ==
    \/ \E include \in AnalyzeIncludes :
            analyze(StrOfLen(MAX_CONTENT_LENGTH), include)
    \/ AnalyzeSettle
    \/ \E c \in AllCalls :
        \/ RetrySettle(c)
        \/ \E r \in CombineResponses : FetchResolve(c, 1, r, LatencyOf(c))
        \/ \E e \in AnalyzeExceptions : OkBodyRead(c, 1, e, LatencyOf(c))

SpecCombine == InitNoRetries /\ [][NextCombine]_vars

(***************************************************************************)
(* request and multipartRequest side by side: two clients are given the    *)
(* same events, the multipart client first                                 *)
(***************************************************************************)
MaxCalls == 2

\* both clients are at the same point
InSync == meta = mp.meta /\ att[1][1] = mp.att

\* the first client has not yet been given the last event, of this kind
Behind(kind) ==
    /\ mp.event.kind = kind
    /\ meta = mp.prevMeta
    /\ att[1][1] = mp.prevAtt

\* the second client's attempt takes a step on an event
Lead(event, m, a) ==
    /\ mp' = [mp EXCEPT !.meta = m, !.att = a, !.prevMeta = mp.meta,
                        !.prevAtt = mp.att, !.event = event]
    /\ UNCHANGED <<client, retries, meta, cpc, attempts, waits, att, hist, result,
                   input, sleep, analysis, session>>

\* a call is made on each client: request and multipartRequest run up to
\* their first await
Invoke ==
    /\ mp.calls < MaxCalls
    /\ InSync
    /\ mp.att.pc \in {"none", "returned", "thrown"}
    /\ att' = [att EXCEPT ![1][1] = StartedAttempt]
    /\ mp' = [mp EXCEPT !.att = StartedAttempt, !.prevAtt = StartedAttempt,
                        !.prevMeta = mp.meta, !.event = Event("none", NoResp, Undefined, 0),
                        !.calls = @ + 1]
    /\ UNCHANGED <<client, retries, meta, cpc, attempts, waits, hist, result,
                   input, sleep, analysis, session>>

\* the timeout timer of the multipart attempt fires
MultipartTimerFire ==
    /\ InSync
    /\ mp.att.timer = "armed"
    /\ Lead(Event("timer", NoResp, Undefined, 0), mp.meta, onTimeout(mp.att))

\* fetch resolves with a response: lines 470-505 up to the body read
MultipartFetchResolve(resp, latency) ==
    /\ InSync
    /\ mp.att.net = "pending"
    /\ Lead(Event("resolve", resp, Undefined, latency),
            multipartExtractMetadata(mp.meta, resp.headers, latency),
            [clearTimeout(mp.att) EXCEPT
                !.net = "done", !.resp = resp,
                !.updates = @ + 1, !.hdrWrites = @ + 1,
                !.pc = IF ok(resp.status) THEN "okBody" ELSE "errBody"])

\* fetch rejects: lines 508-539
MultipartFetchReject(error, latency) ==
    /\ InSync
    /\ mp.att.net \in {"pending", "aborted"}
    /\ error \in IF mp.att.net = "aborted" THEN AbortExceptions
                                            ELSE TransportExceptions
    /\ Lead(Event("reject", NoResp, error, latency),
            multipartRecordLatency(mp.meta, latency),
            [multipartCaught(mp.att, error) EXCEPT !.net = "done"])

\* response.json() of a non-2xx response settles: lines 502-513
MultipartErrorBodyRead(abortError, latency) ==
    /\ InSync
    /\ mp.att.pc = "errBody"
    /\ LET a == mp.att
           decoded == json(a.resp.body, a.aborted, abortError)
           thrown == multipartThrowForErrorResponse(a.resp, decoded)
       IN  Lead(Event("errBody", NoResp, abortError, latency),
                multipartRecordLatency(mp.meta, latency),
                [multipartCaught(a, thrown) EXCEPT
                    !.classified = IF thrown.t = "err" THEN thrown ELSE @])

\* response.json() of a 2xx response settles: lines 507-539
MultipartOkBodyRead(abortError, latency) ==
    /\ InSync
    /\ mp.att.pc = "okBody"
    /\ LET a == mp.att
           decoded == json(a.resp.body, a.aborted, abortError)
       IN  IF decoded.t = "exc"
             THEN Lead(Event("okBody", NoResp, abortError, latency),
                       multipartRecordLatency(mp.meta, latency),
                       multipartCaught(a, decoded))
             ELSE Lead(Event("okBody", NoResp, abortError, latency),
                       mp.meta,
                       [a EXCEPT !.pc = "returned", !.val = decoded.v])

\* the first client's attempt, in request, is given the same event
RequestTimerFire ==
    /\ Behind("timer")
    /\ TimerFire(1, 1)

RequestFetchResolve ==
    /\ Behind("resolve")
    /\ FetchResolve(1, 1, mp.event.resp, mp.event.latency)

RequestFetchReject ==
    /\ Behind("reject")
    /\ FetchReject(1, 1, mp.event.error, mp.event.latency)

RequestErrorBodyRead ==
    /\ Behind("errBody")
    /\ ErrorBodyRead(1, 1, mp.event.error, mp.event.latency)

RequestOkBodyRead ==
    /\ Behind("okBody")
    /\ OkBodyRead(1, 1, mp.event.error, mp.event.latency)

\* the responses both clients are given
MultipartResponses ==
    {r \in Responses :
        /\ r.status \in {201, 400, 429, 500}
        /\ r.body \in {Malformed, Truncated, Json(Str(<<"b", "1">>)),
                        Json(EmptyObj),
                        Json(ErrPayload(Str(<<"RATE_2003">>), Str(<<"quota">>),
                                        Undefined, Undefined, Str(<<"docs">>)))}}

NextMultipart ==
    \/ Invoke
    \/ MultipartTimerFire
    \/ RequestTimerFire
    \/ RequestFetchResolve
    \/ RequestFetchReject
    \/ RequestErrorBodyRead
    \/ RequestOkBodyRead
    \/ \E l \in Latencies :
        \/ \E r \in MultipartResponses : MultipartFetchResolve(r, l)
        \/ \E e \in AbortExceptions \cup TransportExceptions : MultipartFetchReject(e, l)
        \/ \E e \in AbortExceptions :
            \/ MultipartErrorBodyRead(e, l)
            \/ MultipartOkBodyRead(e, l)

SpecMultipart == InitNoRetries /\ [][NextMultipart]_vars

(***************************************************************************)
(* Construction of a client                                                *)
(***************************************************************************)
InitConstruct ==
    /\ retries = DEFAULT_RETRIES
    /\ client = NoClient
    /\ mp = NoMultipart
    /\ meta = NoMeta
    /\ cpc = [c \in AllCalls |-> "idle"]
    /\ attempts = [c \in AllCalls |-> 0]
    /\ waits = [c \in AllCalls |-> 0]
    /\ att = [c \in AllCalls |-> [n \in AttemptIds |-> NoAttempt]]
    /\ hist = [c \in AllCalls |-> NoHist]
    /\ result = [c \in AllCalls |-> NoResult]
    /\ input = [c \in AllCalls |-> NoInput]
    /\ sleep = [c \in AllCalls |-> NoSleep]
    /\ analysis = NoAnalysis
    /\ session = NewSession

\* the application evaluates new Tuteliq(apiKey, options)
NewTuteliq(apiKey, options) ==
    /\ client = NoClient
    /\ client' = New(apiKey, options)
    /\ UNCHANGED <<mp, retries, meta, cpc, attempts, waits, att, hist, result,
                   input, sleep, analysis, session>>

\* the constructor is called with keys and options on both sides of every
\* test it makes
NextConstruct ==
    \E apiKey \in {Undefined, Num(7), StrOfLen(0), StrOfLen(9), StrOfLen(10),
                    StrOfLen(11)} :
        \E timeout \in {Undefined, NaN, Num(999), Num(1000), Num(DEFAULT_TIMEOUT),
                         Num(120000), Num(120001)} :
            \E maxRetries \in {Undefined, Null, NaN, Num(0 - 1), Num(0), Num(10),
                                Num(11)} :
                \E retryDelay \in {Undefined, Num(500)} :
                    NewTuteliq(apiKey, Options(timeout, maxRetries, retryDelay))

SpecConstruct == InitConstruct /\ [][NextConstruct]_vars

(***************************************************************************)
(* Streaming Session: the caller, the server and the connection            *)
(***************************************************************************)
InitStream ==
    /\ Init
    /\ retries = 0

\* client.voiceStream(config, handlers): the connection is opened
voiceStream ==
    /\ session.state = "Idle"
    /\ session' = [session EXCEPT !.state = "Connecting"]
    /\ UNCHANGED requestVars

\* the caller submits the next audio chunk
SendAudio ==
    /\ session.state # "Idle"
    /\ session.submitted + session.refused < MaxChunks
    /\ session' = sendAudio(session)
    /\ UNCHANGED requestVars

\* the event loop writes the outbound buffer to the connection
Flush ==
    /\ session.state = "Active"
    /\ session.buffer # <<>>
    /\ session' = flush(session)
    /\ UNCHANGED requestVars

\* the caller ends the session
End ==
    /\ session.state = "Active"
    /\ session.endCall = "none"
    /\ session' = end(session)
    /\ UNCHANGED requestVars

\* a frame arrives; the server answers the close signal with the summary
Receive(type) ==
    /\ session.state # "Idle"
    /\ session.received < MaxFrames
    /\ type = "session_summary" =>
            \E i \in 1..Len(session.sent) : session.sent[i] = CloseSignal
    /\ session' = onMessage(session, type)
    /\ UNCHANGED requestVars

ConnectionLost ==
    /\ session.state \in {"Connecting", "Active", "Closing"}
    /\ session' = onConnectionLost(session)
    /\ UNCHANGED requestVars

NextStream ==
    \/ voiceStream
    \/ SendAudio
    \/ Flush
    \/ End
    \/ \E type \in FrameTypes : Receive(type)
    \/ ConnectionLost

SpecStream == InitStream /\ [][NextStream]_vars

(***************************************************************************)
(* Properties                                                              *)
(***************************************************************************)
Success(status) == status \in 200..299

\* the designated quota-exceeded codes
DesignatedQuotaCodes == {Str(<<"RATE_2003">>), Str(<<"QUOTA_EXCEEDED">>)}

\* the kind the status table of the classifier gives
TableKind(status, code) ==
    CASE status = 400 -> "Validation"
      [] status = 401 -> "Authentication"
      [] status = 403 -> "TierAccess"
      [] status = 404 -> "NotFound"
      [] status = 429 -> IF code \in DesignatedQuotaCodes THEN "QuotaExceeded"
                                                         ELSE "RateLimit"
      [] OTHER -> IF status >= 500 THEN "Server" ELSE "Generic"

\* the attempts of call c that have not returned or thrown, or whose network
\* operation is still live
InFlight(c) ==
    {n \in AttemptIds :
        \/ att[c][n].pc \in {"fetching", "errBody", "okBody"}
        \/ att[c][n].net \in {"pending", "aborted"}}

\* C1: when every attempt of a logical call is answered with a 5xx status,
\* the call never resolves, never makes more than retries+1 attempts, and
\* when it rejects it has made exactly retries+1 attempts and the error is
\* of kind Server.
C1_AlwaysServerError ==
    \A c \in Calls :
        (hist[c].ended >= 1 /\ hist[c].all5xx) =>
            /\ cpc[c] # "resolved"
            /\ attempts[c] <= retries + 1
            /\ cpc[c] = "rejected" =>
                /\ attempts[c] = retries + 1
                /\ hist[c].ended = retries + 1
                /\ result[c].t = "error"
                /\ result[c].e.kind = "Server"

C1_Witness ==
    \E c \in Calls :
        /\ cpc[c] = "rejected" /\ hist[c].all5xx
        /\ retries = MaxN /\ attempts[c] = MaxN + 1
        /\ result[c].e.kind = "Server"

\* whether the first attempt of call c was answered 400, 401, 403, 404 or
\* 429 with a quota code
FatalFirst(c) ==
    /\ hist[c].first.t = "outcome"
    /\ \/ hist[c].first.status \in {400, 401, 403, 404}
       \/ /\ hist[c].first.status = 429
          /\ hist[c].first.code \in DesignatedQuotaCodes

\* C2: when the first attempt is answered 400, 401, 403, 404 or 429 with a
\* quota code, the call makes exactly one attempt whatever retries is, never
\* enters a backoff wait, and rejects with the kind of the status table.
C2_FatalFirstAttempt ==
    \A c \in Calls :
        FatalFirst(c) =>
            /\ attempts[c] = 1
            /\ waits[c] = 0
            /\ cpc[c] \in {"attempting", "rejected"}
            /\ cpc[c] = "rejected" =>
                /\ result[c].t = "error"
                /\ result[c].e.kind =
                        TableKind(hist[c].first.status, hist[c].first.code)
                /\ result[c].e.kind \in {"Validation", "Authentication",
                        "TierAccess", "NotFound", "QuotaExceeded"}

C2_Witness ==
    \E c \in Calls :
        /\ FatalFirst(c) /\ cpc[c] = "rejected" /\ retries = MaxN
        /\ hist[c].first.status = 429
        /\ hist[c].first.code = Str(<<"QUOTA_EXCEEDED">>)

\* what the call must look like once attempt n has ended on a response
\* that promises success
SucceededAt(c, n) ==
    LET a == att[c][n]
    IN  /\ a.pc \in {"okBody", "returned", "done"}
        /\ a.pc \in {"returned", "done"} =>
            /\ a.val = a.resp.body.v
            /\ attempts[c] = n
            /\ n <= retries + 1
            /\ waits[c] = n - 1
            /\ cpc[c] \in {"attempting", "resolved"}
            /\ cpc[c] = "resolved" => result[c] = [t |-> "value", v |-> a.resp.body.v]

\* C3 as stated: if attempt k gets a 2xx response, the call performs exactly
\* k attempts and k-1 backoff waits and the caller receives the body of
\* attempt k.
C3_AsStated ==
    \A c \in Calls : \A n \in AttemptIds :
        (att[c][n].resp # NoResp /\ Success(att[c][n].resp.status))
            => SucceededAt(c, n)

\* C3 amended: if attempt k gets a 2xx response whose body decodes as JSON,
\* the call performs exactly k attempts and k-1 backoff waits (none for
\* k = 1) and the caller receives the decoded body of attempt k unchanged.
C3_SuccessAfterRetries ==
    \A c \in Calls : \A n \in AttemptIds :
        (/\ att[c][n].resp # NoResp
         /\ Success(att[c][n].resp.status)
         /\ att[c][n].resp.body.t = "json")
            => SucceededAt(c, n)

C3_Witness ==
    \E c \in Calls :
        /\ cpc[c] = "resolved" /\ attempts[c] = MaxN + 1 /\ waits[c] = MaxN
        /\ hist[c].first.status = 503
        /\ att[c][attempts[c]].resp.status = 201
        /\ result[c].v = Str(<<"b", "2">>)

\* C4: a rejected call hands the caller exactly the error the last attempt
\* threw, which for an error response is the classifier's error unchanged;
\* until the call has settled the caller has received nothing.
C4_LastErrorUnchanged ==
    \A c \in Calls :
        /\ cpc[c] = "rejected" =>
            LET a == att[c][attempts[c]]
            IN  /\ hist[c].ended = attempts[c]
                /\ result[c] = [t |-> "error", e |-> a.err]
                /\ a.classified # NoErr => result[c].e = a.classified
        /\ cpc[c] \notin {"resolved", "rejected"} => result[c] = NoResult

C4_Witness ==
    \E c \in Calls :
        /\ cpc[c] = "rejected" /\ attempts[c] >= 2
        /\ hist[c].first.kind = "Timeout"
        /\ result[c].e.kind = "Authentication"
        /\ result[c].e.code = Str(<<"VAL_1001">>)

\* C5: a logical call never has two attempts in flight, and attempt n+1
\* exists only when attempt n has failed and n backoff waits have elapsed.
C5_OneAttemptInFlight ==
    \A c \in Calls :
        /\ Cardinality(InFlight(c)) <= 1
        /\ \A n \in AttemptIds :
            (n < MaxAttempts /\ att[c][n + 1].pc # "none") =>
                /\ att[c][n].pc = "done"
                /\ att[c][n].net \in {"done"}
                /\ hist[c].ended >= n
                /\ waits[c] >= n

C5_Witness ==
    \E c \in Calls :
        /\ attempts[c] = 2 /\ InFlight(c) = {2} /\ waits[c] = 1
        /\ att[c][2].pc = "errBody"

\* C6: an attempt that received a non-2xx response never returns; it throws
\* the error whose kind the status table gives for the status (and, for 429,
\* the machine code), with the status carried by Server and Generic errors.
C6_StatusTable ==
    \A c \in Calls : \A n \in AttemptIds :
        LET a == att[c][n]
        IN  (a.resp # NoResp /\ ~Success(a.resp.status)) =>
                /\ a.pc \in {"errBody", "thrown", "done"}
                /\ a.pc \in {"thrown", "done"} =>
                    /\ a.classified.t = "err"
                    /\ a.err = a.classified
                    /\ a.err.kind = TableKind(a.resp.status, a.err.code)
                    /\ a.err.kind \in {"Server", "Generic"} <=>
                            a.err.status = Num(a.resp.status)

C6_Witness ==
    \E c \in Calls : \E n \in AttemptIds :
        /\ att[c][n].pc = "thrown"
        /\ att[c][n].resp # NoResp
        /\ att[c][n].resp.status = 418
        /\ att[c][n].err.kind = "Generic"
        /\ att[c][n].err.status = Num(418)

\* whether s is a non-empty string of decimal digits
AllDigits(s) == Len(s) > 0 /\ \A i \in 1..Len(s) : s[i] \in Digits

\* the number a string of decimal digits denotes
RECURSIVE Decimal(_)
Decimal(s) ==
    IF s = <<>> THEN 0
    ELSE 10 * Decimal(SubSeq(s, 1, Len(s) - 1)) + DigitVal(s[Len(s)])

\* C7: a 429 response is thrown as QuotaExceeded exactly when the machine
\* code of its error body is a designated quota code, and as RateLimit
\* otherwise; the RateLimit error has retryAfter equal to the number in the
\* retry-after header when the header holds one (5 for "5") and no
\* retryAfter when the header is absent.
C7_RateLimitOrQuota ==
    \A c \in Calls : \A n \in AttemptIds :
        LET a == att[c][n]
            h == a.resp.headers.retryAfter
        IN  (a.resp # NoResp /\ a.resp.status = 429 /\ a.pc \in {"thrown", "done"}) =>
                /\ a.err.kind \in {"QuotaExceeded", "RateLimit"}
                /\ a.err.kind = "QuotaExceeded" <=> a.err.code \in DesignatedQuotaCodes
                /\ a.err.kind = "RateLimit" =>
                    /\ h = Null => a.err.retryAfter = Undefined
                    /\ h = Str(<<"5">>) => a.err.retryAfter = Num(5)
                    /\ (h # Null /\ AllDigits(h.s)) =>
                            a.err.retryAfter = Num(Decimal(h.s))

C7_Witness ==
    \E c \in Calls : \E n \in AttemptIds :
        /\ att[c][n].pc = "thrown"
        /\ att[c][n].resp # NoResp
        /\ att[c][n].resp.status = 429
        /\ att[c][n].err.kind = "RateLimit"
        /\ att[c][n].err.retryAfter = Num(5)

\* C8: an attempt whose timeout timer has fired has had its fetch aborted,
\* has received no response and written no header-derived metadata, never
\* returns, and when it ends it throws an error of kind Timeout.
C8_TimeoutOnly ==
    \A c \in Calls : \A n \in AttemptIds :
        LET a == att[c][n]
        IN  a.timer = "fired" =>
                /\ a.aborted
                /\ a.net # "pending"
                /\ a.resp = NoResp
                /\ a.hdrWrites = 0
                /\ a.pc \in {"fetching", "thrown", "done"}
                /\ a.pc = "thrown" => a.err.kind = "Timeout"

C8_Witness ==
    \E c \in Calls : \E n \in AttemptIds :
        /\ att[c][n].timer = "fired"
        /\ att[c][n].pc = "thrown"
        /\ att[c][n].err.kind = "Timeout"
        /\ meta.lastRequestId # Null

\* the usage and rate limit the model's header sets denote
FullUsage == [t |-> "usage", limit |-> Num(10), used |-> Num(4), remaining |-> Num(6)]
FullRateLimit ==
    [t |-> "rateLimit", limit |-> Num(60), remaining |-> Num(59), reset |-> Num(7)]
PartialRateLimit ==
    [t |-> "rateLimit", limit |-> Num(30), remaining |-> NaN, reset |-> Undefined]

\* C9: in the step in which an attempt receives a response, whatever its
\* status, the snapshot takes the request id and usage warning of the
\* response's headers, and the usage and rate limit they denote (keeping
\* the previous value when they denote none); the status is acted on only
\* afterwards.
C9_MetadataOnEveryStatus ==
    [][\A c \in Calls : \A n \in AttemptIds :
        (att[c][n].resp = NoResp /\ att'[c][n].resp # NoResp) =>
            LET h == att'[c][n].resp.headers
            IN  /\ att'[c][n].pc \in {"okBody", "errBody"}
                /\ meta'.lastRequestId = h.rid
                /\ meta'.usageWarning = h.warn
                /\ meta'.lastLatencyMs # Null
                /\ h = FullHeaders =>
                    meta'.usage = FullUsage /\ meta'.rateLimit = FullRateLimit
                /\ h = PartialHeaders =>
                    meta'.usage = meta.usage /\ meta'.rateLimit = PartialRateLimit
                /\ h = NoHeaders =>
                    meta'.usage = meta.usage /\ meta'.rateLimit = meta.rateLimit
      ]_vars

C9_Witness ==
    \E c \in Calls : \E n \in AttemptIds :
        /\ att[c][n].pc = "errBody"
        /\ att[c][n].resp.status = 429
        /\ att[c][n].resp.headers = FullHeaders
        /\ meta.usage = FullUsage
        /\ meta.rateLimit = FullRateLimit
        /\ meta.lastRequestId = Str(<<"r", "1">>)
        /\ meta.usageWarning = Str(<<"w">>)

\* C10: an attempt that has returned or thrown has written the metadata
\* snapshot exactly once.
C10_OneUpdatePerAttempt ==
    \A c \in Calls : \A n \in AttemptIds :
        att[c][n].pc \in {"returned", "thrown"} => att[c][n].updates = 1

\* C11: a non-2xx response whose body is absent or is not valid JSON is
\* classified as if its body were {}: the thrown error is the one the status
\* table gives for a body without a code (429 gives RateLimit, not
\* QuotaExceeded), equal to the error for the same status and headers with
\* the well-formed body {}.
C11_UndecodableErrorBody ==
    \A c \in Calls : \A n \in AttemptIds :
        LET a == att[c][n]
        IN  (a.pc = "thrown" /\ a.resp # NoResp /\ ~Success(a.resp.status)
                /\ a.resp.body = Malformed)
            => /\ a.err.t = "err"
               /\ a.err.kind = TableKind(a.resp.status, Undefined)
               /\ a.err.code = Undefined
               /\ a.err.message = UnknownErrorMsg
               /\ a.err = handleErrorResponse(a.resp.status, EmptyObj, a.resp.headers)

C11_Witness ==
    \E c \in Calls : \E n \in AttemptIds :
        /\ att[c][n].pc = "thrown"
        /\ att[c][n].resp # NoResp
        /\ att[c][n].resp.status = 429
        /\ att[c][n].resp.body = Malformed
        /\ att[c][n].err.kind = "RateLimit"

\* the inputs the operations must refuse
InvalidContent(content) ==
    content.t # "str" \/ content.len = 0 \/ content.len > 50000

InvalidInput(inp) ==
    CASE inp.op = "detectBullying" -> InvalidContent(inp.content)
      [] inp.op = "detectGrooming" ->
            inp.messages.t # "array" \/ inp.messages.len = 0 \/ inp.messages.len > 100
      [] inp.op = "batch" ->
            inp.items.t # "array" \/ inp.items.len = 0 \/ inp.items.len > 25
      [] inp.op = "analyseMulti" ->
            \/ InvalidContent(inp.content)
            \/ inp.detections.t # "array"
            \/ inp.detections.len = 0 \/ inp.detections.len > 10
      [] OTHER -> FALSE

\* C12: a public operation invoked with content that is missing, empty or
\* longer than 50000 characters, with no messages or more than 100, with no
\* batch items or more than 25, or with no detections or more than 10, fails
\* with a Validation error, makes no network attempt and leaves the metadata
\* snapshot as it was.
C12_ClientSideRejection ==
    [][\A c \in Calls :
            InvalidInput(input'[c])
            => /\ cpc'[c] = "rejected"
               /\ result'[c].t = "error"
               /\ result'[c].e.kind = "Validation"
               /\ attempts'[c] = 0
               /\ \A n \in AttemptIds : att'[c][n] = NoAttempt
               /\ meta' = meta]_vars

\* an over-long content is refused after an earlier call filled the snapshot
C12_Witness ==
    \E c \in Calls :
        /\ input[c].op = "detectBullying"
        /\ input[c].content = StrOfLen(50001)
        /\ cpc[c] = "rejected"
        /\ result[c].e.kind = "Validation"
        /\ attempts[c] = 0
        /\ meta.lastRequestId # Null

\* the session has received Ready
WasActive(s) == s.dispatched # <<>>

\* C13: audio submitted before Ready is held in the buffer and not
\* transmitted while the session is Connecting; once the session has become
\* Active every such chunk has been transmitted, in submission order and
\* ahead of every chunk submitted later.
C13_AudioQueuedUntilReady ==
    /\ session.state = "Connecting" =>
            /\ session.sent = <<>>
            /\ session.held = session.submitted
            /\ session.buffer = [i \in 1..session.submitted |-> i]
    /\ WasActive(session) =>
            /\ Len(session.sent) >= session.held
            /\ \A i \in 1..session.held : session.sent[i] = Audio(i)
            /\ \A i, j \in 1..Len(session.sent) :
                    (i < j /\ session.sent[i].t = "audio" /\ session.sent[j].t = "audio")
                    => session.sent[i].id < session.sent[j].id

C13_Witness ==
    /\ session.state = "Active"
    /\ session.held = 2
    /\ session.submitted = 3
    /\ session.sent = <<Audio(1), Audio(2), Audio(3)>>

\* C14: when an Active session is ended, every accepted chunk has been sent
\* before the close signal, the close signal is the last frame sent, and a
\* submission made once the session is Closing is refused and changes
\* neither the buffer nor what is sent.
C14_FlushBeforeClose ==
    [][/\ (\E i \in 1..Len(session'.sent) : session'.sent[i] = CloseSignal)
            => /\ session'.sent =
                     [i \in 1..session'.submitted |-> Audio(i)] \o <<CloseSignal>>
               /\ session'.buffer = <<>>
       /\ (session.state = "Closing"
            /\ session'.submitted + session'.refused
                    > session.submitted + session.refused)
            => /\ session'.refused = session.refused + 1
               /\ session'.submitted = session.submitted
               /\ session'.sent = session.sent
               /\ session'.buffer = session.buffer]_vars

C14_Witness ==
    /\ session.state = "Closing"
    /\ session.submitted = 2
    /\ session.refused = 1
    /\ session.sent = <<Audio(1), Audio(2), CloseSignal>>

\* C15: the session becomes Closed only from Closing and only by
\* processing a SessionSummary frame, which resolves the pending end() with
\* the summary; the transcript of a resolved summary is non-empty when at
\* least one Transcription event was received.
C15_ClosedOnSummary ==
    [][/\ (session'.state = "Closed" /\ session.state # "Closed")
            => /\ session.state = "Closing"
               /\ session'.last = "session_summary"
               /\ session'.received = session.received + 1
               /\ session.endCall = "pending"
               /\ session'.endCall = "resolved"
               /\ session'.summary.t = "summary"
       /\ (session'.endCall = "resolved" /\ session'.transcriptions >= 1)
            => session'.summary.transcript # <<>>]_vars

C15_Witness ==
    /\ session.state = "Closed"
    /\ session.endCall = "resolved"
    /\ session.transcriptions >= 1
    /\ session.summary.transcript # <<>>

\* C16: entering Errored rejects a pending end(); once Errored, nothing
\* more is dispatched to any handler; an Errored session has had the one
\* terminal event Error, a Closed one the one terminal event
\* SessionSummary, and no session has had two terminal events.
C16_ErroredIsFinal ==
    [][/\ session.state = "Errored"
            => /\ session'.dispatched = session.dispatched
               /\ session'.errorCalls = session.errorCalls
               /\ session'.terminal = session.terminal
               /\ session'.endCall = session.endCall
       /\ (session.endCall = "pending" /\ session'.state = "Errored")
            => session'.endCall = "rejected"
       /\ session'.state = "Errored"
            => session'.endCall # "pending" /\ session'.terminal = <<"error">>
       /\ session'.state = "Closed" => session'.terminal = <<"session_summary">>
       /\ Len(session'.terminal) <= 1]_vars

\* an Errored session whose end() was rejected by an Error event and which
\* has received a further frame since
C16_Witness ==
    /\ session.state = "Errored"
    /\ session.endCall = "rejected"
    /\ session.last = "error"
    /\ session.received > Len(session.dispatched) + 1

LifecycleSteps ==
    {<<"Idle", "Connecting">>, <<"Connecting", "Active">>,
     <<"Active", "Closing">>, <<"Closing", "Closed">>}

\* C17: the lifecycle state changes only along Idle, Connecting, Active,
\* Closing, Closed, or to Errored from a state other than Closed and
\* Errored; Closed and Errored are never left, so a session that lost its
\* connection is never Connecting or Active again.
C17_Lifecycle ==
    [][session'.state # session.state
        => \/ <<session.state, session'.state>> \in LifecycleSteps
           \/ /\ session'.state = "Errored"
              /\ session.state \notin {"Closed", "Errored"}]_vars

\* the connection was lost while the session was Active
C17_Witness ==
    /\ session.state = "Errored"
    /\ session.endCall = "none"
    /\ WasActive(session)
    /\ session.last = "transcription"
    /\ session.received < MaxFrames

RetriedKinds == {"RateLimit", "Network", "Timeout", "Server"}

C20_AsStated ==
    \A c \in Calls : \A n \in AttemptIds :
        LET a == att[c][n]
        IN  (a.pc = "thrown" /\ a.resp = NoResp)
            => IF a.aborted THEN a.err.kind = "Timeout"
                            ELSE a.err.kind = "Network"

\* C21: when the attempt withRetry awaits has thrown an error of kind
\* Generic, the call rejects with that error and starts no further attempt,
\* whatever the value of retries.
C21_GenericNotRetried ==
    [][\A c \in Calls :
        (attempts[c] >= 1 /\ cpc[c] = "attempting"
            /\ att[c][attempts[c]].pc = "thrown"
            /\ att[c][attempts[c]].err.kind = "Generic")
        => /\ attempts'[c] = attempts[c]
           /\ cpc'[c] \in {"attempting", "rejected"}
           /\ cpc'[c] = "rejected"
                => result'[c] = [t |-> "error", e |-> att[c][attempts[c]].err]]_vars

\* a call with retries left has rejected after one attempt that received a
\* status outside the table
C21_Witness ==
    \E c \in Calls :
        /\ cpc[c] = "rejected"
        /\ retries = MaxN
        /\ attempts[c] = 1
        /\ result[c].e.kind = "Generic"
        /\ result[c].e.status = Num(418)

\* the detection types an include option names: both when it is not given
TypesNamed(include) ==
    IF include = Undefined THEN {"bullying", "unsafe"} ELSE include.types

FromCall(c) ==
    /\ meta.lastLatencyMs = Num(LatencyOf(c))
    /\ meta.lastRequestId = HeadersOf(c).rid
    /\ meta.usageWarning = HeadersOf(c).warn

\* C23: while the calls of analyze run concurrently, lastRequestId,
\* usageWarning and lastLatencyMs as read from the client are those of one
\* and the same attempt.
C23_SnapshotNotTorn ==
    meta.lastRequestId # Null => \E c \in AllCalls : FromCall(c)

\* C24: the step in which an attempt that has received no response ends
\* in Timeout or Network writes lastLatencyMs and leaves usage, rateLimit,
\* lastRequestId and usageWarning as they were.
C24_FailureWritesLatencyOnly ==
    [][\A c \in Calls : \A n \in AttemptIds :
        (att[c][n].pc = "fetching" /\ att'[c][n].pc = "thrown"
            /\ att'[c][n].resp = NoResp
            /\ att'[c][n].err.kind \in {"Timeout", "Network"})
        => /\ meta'.lastLatencyMs.t = "num"
           /\ meta'.usage = meta.usage
           /\ meta'.rateLimit = meta.rateLimit
           /\ meta'.lastRequestId = meta.lastRequestId
           /\ meta'.usageWarning = meta.usageWarning]_vars

\* the first attempt of a call has timed out; the snapshot still holds
\* what the response to the previous call carried
C24_Witness ==
    \E c \in Calls :
        /\ attempts[c] = 1
        /\ att[c][1].pc = "thrown"
        /\ att[c][1].resp = NoResp
        /\ att[c][1].err.kind = "Timeout"
        /\ meta.lastRequestId = FullHeaders.rid
        /\ meta.usage = FullUsage
        /\ meta.usageWarning = FullHeaders.warn

\* a header is present when headers.get does not return null
Present(header) == header # Null

\* C25: in the step in which an attempt receives a response, usage changes
\* only if the three monthly headers are all present, rateLimit changes only
\* if the limit and remaining headers are both present (otherwise each keeps
\* its previous value), and lastRequestId and usageWarning become what the
\* response carries, null when the header is absent; and in no step does
\* usage or rateLimit go from a value back to null.
C25_HeaderGatedUpdate ==
    [][/\ \A c \in Calls : \A n \in AttemptIds :
            (att[c][n].resp = NoResp /\ att'[c][n].resp # NoResp) =>
                LET h == att'[c][n].resp.headers
                IN  /\ meta'.usage # meta.usage =>
                        Present(h.mLimit) /\ Present(h.mUsed) /\ Present(h.mRemaining)
                    /\ meta'.rateLimit # meta.rateLimit =>
                        Present(h.rlLimit) /\ Present(h.rlRemaining)
                    /\ meta'.lastRequestId = h.rid
                    /\ meta'.usageWarning = h.warn
                    /\ ~Present(h.rid) => meta'.lastRequestId = Null
                    /\ ~Present(h.warn) => meta'.usageWarning = Null
       /\ meta.usage # Null => meta'.usage # Null
       /\ meta.rateLimit # Null => meta'.rateLimit # Null]_vars

\* the second attempt of a call has received a response without headers:
\* usage and rateLimit are still those of the first response, the request
\* id and the warning are null again
C25_Witness ==
    \E c \in Calls :
        /\ attempts[c] = 2
        /\ att[c][2].pc \in {"okBody", "errBody"}
        /\ att[c][2].resp.headers = NoHeaders
        /\ meta.usage = FullUsage
        /\ meta.rateLimit = FullRateLimit
        /\ meta.lastRequestId = Null
        /\ meta.usageWarning = Null

\* C26: a client that has been constructed has retries in 0..10 and a
\* timeout in 1000..120000 (and an API key that is a string of length >= 10).
C26_AsStated ==
    (client.t = "new" /\ client.outcome.t = "client") =>
        /\ client.apiKey.t = "str" /\ client.apiKey.len >= 10
        /\ client.outcome.retries.t = "num"
        /\ client.outcome.retries.v >= 0 /\ client.outcome.retries.v <= 10
        /\ client.outcome.timeout.t = "num"
        /\ client.outcome.timeout.v >= 1000 /\ client.outcome.timeout.v <= 120000

StatusDerivedKinds ==
    {"Validation", "Authentication", "TierAccess", "NotFound", "RateLimit",
     "QuotaExceeded", "Server"}

\* C27: an attempt that received a 2xx response and has ended either
\* returned the value its body decodes to, or, the body being undecodable,
\* threw an error of kind Generic or Network that carries no status; it
\* threw no status-derived kind and returned nothing for an undecodable body.
C27_SuccessStatusOutcome ==
    \A c \in Calls : \A n \in AttemptIds :
        LET a == att[c][n]
        IN  (a.resp # NoResp /\ Success(a.resp.status)
                /\ a.pc \in {"returned", "thrown"})
            => /\ a.pc = "returned" =>
                    a.resp.body.t = "json" /\ a.val = a.resp.body.v
               /\ a.pc = "thrown" =>
                    /\ a.resp.body.t # "json"
                    /\ a.err.kind \in {"Generic", "Network"}
                    /\ a.err.kind \notin StatusDerivedKinds
                    /\ a.err.status = Undefined

\* a 201 response whose body is not JSON has ended in a Generic error
C27_Witness ==
    \E c \in Calls : \E n \in AttemptIds :
        /\ att[c][n].pc = "thrown"
        /\ att[c][n].resp # NoResp
        /\ att[c][n].resp.status = 201
        /\ att[c][n].resp.body = Malformed
        /\ att[c][n].err.kind = "Generic"
        /\ att[c][n].err.status = Undefined

\* rank of a recommended action
Rank(action) ==
    CASE action = "immediate_intervention" -> 3
      [] action = "flag_for_moderator" -> 2
      [] action = "monitor" -> 1
      [] action = "none" -> 0

\* the level the thresholds 0.9 / 0.7 / 0.5 / 0.3 give a score (hundredths)
LevelOf(score) ==
    CASE score >= 90 -> "critical"
      [] score < 90 /\ score >= 70 -> "high"
      [] score < 70 /\ score >= 50 -> "medium"
      [] score < 50 /\ score >= 30 -> "low"
      [] score < 30 -> "safe"

\* the results of the detections that ran in the analyze that has resolved
RanResults == {result[c].v : c \in {CallOf(type) : type \in TypesNamed(analysis.include)}}

\* C28: when analyze has resolved, its risk_score is the greatest of 0 and
\* the risk scores of the detections that ran, its risk_level is the level
\* the thresholds give that score, its recommended_action is the
\* highest-ranked action among the results (none when there is no result),
\* and with an empty include list nothing ran and the result is safe with
\* score 0.
C28_CombinedResult ==
    analysis.pc = "resolved" =>
        LET out == analysis.outcome
            scores == {0} \cup {r.risk_score : r \in RanResults}
            ranks == {0} \cup {Rank(r.recommended_action) : r \in RanResults}
        IN  /\ out.risk_score \in scores
            /\ \A x \in scores : out.risk_score >= x
            /\ out.risk_level = LevelOf(out.risk_score)
            /\ Rank(out.recommended_action) \in ranks
            /\ \A x \in ranks : Rank(out.recommended_action) >= x
            /\ analysis.include = Includes({}) =>
                    /\ analysis.started = {}
                    /\ out.risk_level = "safe"
                    /\ out.risk_score = 0

\* both detections ran: the score sits on the critical threshold and comes
\* from one result, the action from the other
C28_Witness ==
    /\ analysis.pc = "resolved"
    /\ analysis.started = {1, 2}
    /\ result[1].v = DetectionResult(90, "monitor")
    /\ result[2].v = DetectionResult(30, "flag_for_moderator")
    /\ analysis.outcome.risk_score = 90
    /\ analysis.outcome.risk_level = "critical"
    /\ analysis.outcome.recommended_action = "flag_for_moderator"

\* C29: given the same responses, timeouts and transport failures, an
\* attempt through multipartRequest and an attempt through request are at
\* every point in the same state (position, returned value, thrown error
\* with all its fields) and leave the same metadata snapshot: the first
\* client either has yet to be given the last event, or agrees with the
\* second.
C29_SameAsRequest ==
    \/ meta = mp.meta /\ att[1][1] = mp.att
    \/ /\ meta = mp.prevMeta /\ att[1][1] = mp.prevAtt
       /\ mp.event.kind # "none"

\* in their second call both clients have thrown the same Network error
\* for a transport failure recognised by its message, and hold the same
\* snapshot left by the first call
C29_Witness ==
    /\ mp.calls = 2
    /\ mp.att.pc = "thrown"
    /\ mp.att.err.kind = "Network"
    /\ mp.event.kind = "reject"
    /\ mp.event.error = Exc(TRUE, FALSE, "Error", <<"read", "ECONNRESET">>)
    /\ att[1][1] = mp.att
    /\ meta = mp.meta
    /\ meta.usage = FullUsage

\* C30: an attempt that has not yet returned or thrown (it awaits fetch or
\* the read of the response body) has its timeout timer armed, or the timer
\* has already fired; an attempt that has returned or thrown has no armed
\* timer.
C30_AsStated ==
    \A c \in Calls : \A n \in AttemptIds :
        /\ att[c][n].pc \in {"fetching", "okBody", "errBody"} =>
                att[c][n].timer \in {"armed", "fired"}
        /\ att[c][n].pc \in {"returned", "thrown"} =>
                att[c][n].timer # "armed"

====
